---- MODULE Spec2Model ----
(***************************************************************************)
(* State-machine model of class SIMNet (src/simnet.py): the session flags, *)
(* the login guard and the exam-phase guards, the simbook operations and   *)
(* the two exam runs (SIMpath "practice" exam, SIMnet "graded" exam).      *)
(*                                                                         *)
(* The program is single-threaded and synchronous.  A call of a simple     *)
(* operation is one step.  An exam run is a sequence of steps (one per     *)
(* network call or loop iteration), and no other operation can start       *)
(* while a run is in progress (pc # "idle").                               *)
(***************************************************************************)
EXTENDS Integers, Sequences, FiniteSets, TLC

VARIABLES
    logged_in,          \* self.logged_in
    is_in_simpath,      \* self.is_in_simpath
    is_in_exam,         \* self.is_in_exam
    pc,                 \* position of the call in progress, "idle" when none
    call,               \* the call in progress / last call: operation, argument, outcome
    sent,               \* requests handed to self.session by that call, with their responses
    questions,          \* local j["questions"] of the exam run
    question_dicts,     \* local question_dicts of the exam run
    seconds_remaining,  \* local seconds_remaining of the exam run
    answered,           \* iterations of the run's answer loop completed so far
    transport_raises,   \* environment: whether the transport may raise ConnectionError
    long_exam           \* environment: whether the platform serves the long exam

vars == <<logged_in, is_in_simpath, is_in_exam, pc, call, sent,
          questions, question_dicts, seconds_remaining, answered,
          transport_raises, long_exam>>

frame == <<questions, question_dicts, seconds_remaining, answered>>

session_flags == <<logged_in, is_in_simpath, is_in_exam>>

\* what no operation of the program changes
environment == <<transport_raises, long_exam>>

----------------------------------------------------------------------------
(* Bounds of the model *)

MaxQuestions == 2       \* longest question list an init response carries
MaxAttempts == 1        \* largest "attempts" value an init response carries
MaxFields == 4          \* largest number of '&'-separated query fields of a url
LongExamQuestions == 3001   \* number of questions of the long exam

(* Program constants *)

ExamBudget == 600000    \* seconds_remaining = 600_000
SecondsSpentMin == 23   \* random.randint(23, 200)
SecondsSpentMax == 200
LessonType == 4         \* "lessonType": 4 of the SIMpath answer
Unbound == 0 - 1        \* value of a local that has not been assigned yet

\* random.randint(23, 200), sampled at both ends
Durations == {SecondsSpentMin, SecondsSpentMax}

QuestionIds == {"q1", "q2"}

\* A question of the init payload: question["id"], question["attempts"]
Question == [id : QuestionIds, attempts : 0..MaxAttempts]

RECURSIVE SeqsUpTo(_, _)
SeqsUpTo(S, n) ==
    IF n = 0 THEN {<<>>}
    ELSE LET shorter == SeqsUpTo(S, n - 1)
         IN  shorter \cup {Append(s, x) : s \in {t \in shorter : Len(t) = n - 1}, x \in S}

QuestionLists == SeqsUpTo(Question, MaxQuestions)

\* the long exam: more questions than the budget holds at the slowest pace
LongExam == [i \in 1..LongExamQuestions |-> [id |-> "q1", attempts |-> 0]]

\* j["questions"] of the init payloads the platform serves
ServedQuestionLists == IF long_exam THEN {<<>>, LongExam} ELSE QuestionLists

\* the values random.randint(23, 200) returns: on the long exam, the
\* behaviours in which it returns 200 every time
DrawnDurations == IF long_exam THEN {SecondsSpentMax} ELSE Durations

----------------------------------------------------------------------------
(* The network.  A request either gets an HTTP response (req.ok true or    *)
(* false) or the transport raises requests.ConnectionError.  The body of a *)
(* response is the wanted JSON payload, some other JSON, or not JSON.      *)

HttpStatuses == {"ok", "fail"}
Statuses ==
    IF transport_raises THEN HttpStatuses \cup {"ConnectionError"} ELSE HttpStatuses
Bodies == {"payload", "other_json", "not_json"}

\* responses to a request whose body the code never reads
StatusResponses == [status : Statuses, body : {"unread"}]
\* responses to a request whose body the code parses
BodyResponses ==
    [status : HttpStatuses, body : Bodies]
        \cup [status : Statuses \ HttpStatuses, body : {"unread"}]

Request(endpoint, path, params, resp) ==
    [endpoint |-> endpoint, path |-> path, params |-> params, resp |-> resp]

\* json.loads(req.text)[key]: the outcome for a response body
JsonOutcome(resp) ==
    CASE resp.status = "ConnectionError" -> "ConnectionError"
      [] resp.body = "not_json"          -> "JSONDecodeError"
      [] resp.body = "other_json"        -> "KeyError"
      [] OTHER                           -> "parsed"

----------------------------------------------------------------------------
(* Calls and their outcomes *)

Call(op, arg, outcome) == [op |-> op, arg |-> arg, outcome |-> outcome]

NoArg == <<>>

\* the frame of the previous call is dropped when a new call starts
FreshFrame ==
    /\ questions' = <<>>
    /\ question_dicts' = <<>>
    /\ seconds_remaining' = Unbound
    /\ answered' = 0

\* a call that ends in its first step, with the requests it issued
Finish(op, arg, outcome, requests) ==
    /\ pc' = "idle"
    /\ call' = Call(op, arg, outcome)
    /\ sent' = requests
    /\ FreshFrame

InitSession ==
    /\ logged_in = FALSE
    /\ is_in_simpath = FALSE
    /\ is_in_exam = FALSE
    /\ pc = "idle"
    /\ call = Call("__init__", NoArg, "None")
    /\ sent = <<>>
    /\ questions = <<>>
    /\ question_dicts = <<>>
    /\ seconds_remaining = Unbound
    /\ answered = 0

Init == InitSession /\ transport_raises = TRUE /\ long_exam = FALSE

\* the session with a network that answers every request
InitResponding == InitSession /\ transport_raises = FALSE /\ long_exam = FALSE

\* the session with a network that answers every request, on a platform
\* that serves the long exam
InitLongExam == InitSession /\ transport_raises = FALSE /\ long_exam = TRUE

----------------------------------------------------------------------------
(* The guards (decorators) *)

\* the guard left out: the wrapped function is always entered
login_required_unchecked == TRUE

\* _login_required: the wrapped function is entered iff self.logged_in
login_required == logged_in

\* the guard left out
simpath_started_required_unchecked == TRUE

\* _simpath_started_required: entered iff self.is_in_simpath
simpath_started_required == is_in_simpath

\* _exam_started_required: entered iff self.is_in_exam
exam_started_required == is_in_exam

----------------------------------------------------------------------------
(* login *)

\* the flag set as soon as the post returns, before req.ok is looked at
login_sets_flag_first(resp) == resp.status # "ConnectionError"

\* self.logged_in = True is reached iff the post returned and req.ok
login_reaches_flag(resp) == resp.status = "ok"

\* a login that starts a new session: the phase flags are dropped
login_resetting ==
    /\ pc = "idle"
    /\ \E resp \in StatusResponses :
        LET req == Request("signin", <<>>, [u |-> "username", p |-> "password"], resp)
        IN  /\ logged_in' = (IF login_reaches_flag(resp) THEN TRUE ELSE logged_in)
            /\ is_in_simpath' = (IF login_reaches_flag(resp) THEN FALSE ELSE is_in_simpath)
            /\ is_in_exam' = (IF login_reaches_flag(resp) THEN FALSE ELSE is_in_exam)
            /\ Finish("login", NoArg,
                      CASE resp.status = "ConnectionError" -> "ConnectionError"
                        [] resp.status = "fail"            -> "CouldNotLoginError"
                        [] OTHER                           -> "None",
                      <<req>>)
    /\ UNCHANGED environment

\* a login that assigns req.ok to the flag
login_assigning_ok ==
    /\ pc = "idle"
    /\ \E resp \in StatusResponses :
        LET req == Request("signin", <<>>, [u |-> "username", p |-> "password"], resp)
        IN  /\ logged_in' = (IF resp.status = "ConnectionError"
                             THEN logged_in ELSE login_reaches_flag(resp))
            /\ Finish("login", NoArg,
                      CASE resp.status = "ConnectionError" -> "ConnectionError"
                        [] resp.status = "fail"            -> "CouldNotLoginError"
                        [] OTHER                           -> "None",
                      <<req>>)
    /\ UNCHANGED <<is_in_simpath, is_in_exam, environment>>

login ==
    /\ pc = "idle"
    /\ \E resp \in StatusResponses :
        LET req == Request("signin", <<>>, [u |-> "username", p |-> "password"], resp)
        IN  /\ logged_in' = (IF login_reaches_flag(resp) THEN TRUE ELSE logged_in)
            /\ Finish("login", NoArg,
                      CASE resp.status = "ConnectionError" -> "ConnectionError"
                        [] resp.status = "fail"            -> "CouldNotLoginError"
                        [] OTHER                           -> "None",
                      <<req>>)
    /\ UNCHANGED <<is_in_simpath, is_in_exam, environment>>

----------------------------------------------------------------------------
(* Strings are sequences of one-character strings *)

\* str.split(sep) for a one-character separator
RECURSIVE split(_, _)
split(s, sep) ==
    IF \A i \in 1..Len(s) : s[i] # sep THEN <<s>>
    ELSE LET i == CHOOSE k \in 1..Len(s) :
                      s[k] = sep /\ \A m \in 1..(k - 1) : s[m] # sep
         IN  <<SubSeq(s, 1, i - 1)>> \o split(SubSeq(s, i + 1, Len(s)), sep)

StartsWith(s, prefix) ==
    Len(s) >= Len(prefix) /\ SubSeq(s, 1, Len(prefix)) = prefix

\* the string without its prefix, when it has the prefix
RemovePrefix(s, prefix) ==
    IF StartsWith(s, prefix) THEN SubSeq(s, Len(prefix) + 1, Len(s)) ELSE s

\* str.replace(old, ''): every occurrence of old is removed, left to right
RECURSIVE replace(_, _)
replace(s, old) ==
    IF Len(s) < Len(old) THEN s
    ELSE IF StartsWith(s, old) THEN replace(SubSeq(s, Len(old) + 1, Len(s)), old)
    ELSE <<Head(s)>> \o replace(Tail(s), old)

\* the text before / after the first occurrence of a character
Before(s, c) ==
    IF \A i \in 1..Len(s) : s[i] # c THEN s ELSE split(s, c)[1]

After(s, c) ==
    IF \A i \in 1..Len(s) : s[i] # c THEN <<>>
    ELSE SubSeq(s, Len(Before(s, c)) + 2, Len(s))

\* urlparse(url): the fragment is cut at the first '#', then the query at
\* the first '?' of what is left
urlparse(url) ==
    [query |-> After(Before(url, "#"), "?"), fragment |-> After(url, "#")]

RECURSIVE Join(_, _)
Join(fields, sep) ==
    IF fields = <<>> THEN <<>>
    ELSE IF Len(fields) = 1 THEN fields[1]
    ELSE fields[1] \o <<sep>> \o Join(Tail(fields), sep)

----------------------------------------------------------------------------
(* Arguments of the simbook operations *)

TaskCompleteIdDefault == 362745216     \* task_complete_id: int = 362745216
BaseUrl == <<"h", ":", "/", "/", "s", "/", "s", "b", "/">>

\* query fields a caller may write: a lesson field, an assignment field
\* (any field can stand third and fourth, where the code ignores it), and a
\* lesson field whose value itself contains "l="
QueryFields ==
    { <<"l", "=", "7">>, <<"a", "=", "8">>, <<"l", "=", "l", "=", "7">> }

PageSlug == <<"e", "x">>

\* a fragment that holds the separators of the query
OddSlug == <<"e", "?", "x", "&", "y", "#", "z">>

Fragments == {PageSlug, OddSlug}

UrlOf(fields, fragment) ==
    BaseUrl \o <<"?">> \o Join(fields, "&") \o <<"#">> \o fragment

WellFormedFields ==
    << <<"l", "=", "7">>, <<"a", "=", "8">>, <<"t", "=", "5">>, <<"r", "=", "u">> >>

\* every query of up to MaxFields fields, and three urls of other shapes:
\* the documented one with an odd fragment, one with no query and no
\* fragment, one with a query and no fragment
Urls ==
    { UrlOf(fs, PageSlug) : fs \in SeqsUpTo(QueryFields, MaxFields) }
        \cup { UrlOf(WellFormedFields, OddSlug),
               BaseUrl,
               BaseUrl \o <<"?">> \o Join(WellFormedFields, "&") }

AssignmentDicts ==
    [loid : {<<"7">>}, assignment_id : {<<"8">>},
     task_complete_id : {TaskCompleteIdDefault}, page_slug : Fragments]

\* assignment_data, without its "timeSpent": random.randint(30, 230), which
\* nothing reads
assignment_data == [lessonType |-> "SIMbookLesson", isComplete |-> TRUE]

\* the assignment reference the url is parsed into: loid, assignment_id,
\* page_slug; "ValueError" when the query does not unpack into 4 fields
ParseReference(url) ==
    LET parsed_url == urlparse(url)
        fields     == split(parsed_url.query, "&")
    IN  IF Len(fields) # 4 THEN [error |-> "ValueError"]
        ELSE [error         |-> "none",
              loid          |-> replace(fields[1], <<"l", "=">>),
              assignment_id |-> replace(fields[2], <<"a", "=">>),
              page_slug     |-> parsed_url.fragment]

\* req.raise_for_status() in place of the boolean
ReturnOk_raising(resp) == IF resp.status = "ok" THEN "True" ELSE "HTTPError"

\* return req.ok
ReturnOk(resp) == IF resp.status = "ok" THEN "True" ELSE "False"

SaveOutcome(resp) ==
    IF resp.status = "ConnectionError" THEN "ConnectionError" ELSE ReturnOk(resp)

\* ParseReference over the urls of the model, evaluated once
ParsedUrls == [url \in Urls |-> ParseReference(url)]

complete_simbook_assignment_from_url ==
    /\ pc = "idle"
    /\ \E url \in Urls, resp \in StatusResponses :
        LET op  == "complete_simbook_assignment_from_url"
            ref == ParsedUrls[url]
        IN  IF ~login_required
            THEN Finish(op, url, "NotLoggedInError", <<>>)
            ELSE IF ref.error # "none"
            THEN Finish(op, url, ref.error, <<>>)
            ELSE Finish(op, url, SaveOutcome(resp),
                        <<Request("simbook_save",
                                  <<ref.loid, ref.assignment_id,
                                    TaskCompleteIdDefault, ref.page_slug>>,
                                  assignment_data, resp)>>)
    /\ UNCHANGED <<session_flags, environment>>

complete_simbook_assignment_from_dict ==
    /\ pc = "idle"
    /\ \E d \in AssignmentDicts, resp \in StatusResponses :
        LET op == "complete_simbook_assignment_from_dict"
        IN  IF ~login_required
            THEN Finish(op, d, "NotLoggedInError", <<>>)
            ELSE Finish(op, d, SaveOutcome(resp),
                        <<Request("simbook_save",
                                  <<d.loid, d.assignment_id,
                                    d.task_complete_id, d.page_slug>>,
                                  assignment_data, resp)>>)
    /\ UNCHANGED <<session_flags, environment>>

\* an enumeration that leaves the exam phase
get_simbook_assignments_ending_phase ==
    /\ pc = "idle"
    /\ \E resp \in BodyResponses :
        LET op == "get_simbook_assignments"
        IN  IF ~login_required
            THEN Finish(op, NoArg, "NotLoggedInError", <<>>)
            ELSE Finish(op, NoArg,
                        IF JsonOutcome(resp) = "parsed" THEN "tasks"
                        ELSE JsonOutcome(resp),
                        <<Request("simbook_details", <<>>,
                                  [lessonType |-> "0"], resp)>>)
    /\ is_in_simpath' = FALSE /\ is_in_exam' = FALSE
    /\ UNCHANGED <<logged_in, environment>>

\* get_simbook_assignments, with the generator it returns consumed at once:
\* the guard runs at the call, the request and the parse at the first next()
get_simbook_assignments ==
    /\ pc = "idle"
    /\ \E resp \in BodyResponses :
        LET op == "get_simbook_assignments"
        IN  IF ~login_required
            THEN Finish(op, NoArg, "NotLoggedInError", <<>>)
            ELSE Finish(op, NoArg,
                        IF JsonOutcome(resp) = "parsed" THEN "tasks"
                        ELSE JsonOutcome(resp),
                        <<Request("simbook_details", <<>>,
                                  [lessonType |-> "0"], resp)>>)
    /\ UNCHANGED <<session_flags, environment>>

----------------------------------------------------------------------------
(* Names the interpreter can resolve *)

\* attributes of a SIMNet object
ClassAttributes ==
    {"school", "base_url", "headers", "logged_in", "is_in_simpath", "is_in_exam",
     "session", "login", "login_required", "simpath_started_required",
     "exam_started_required", "complete_simbook_assignment_from_url",
     "complete_simbook_assignment_from_dict", "get_simbook_assignments",
     "complete_simpath_exam", "_complete_simpath_question",
     "complete_exam", "_complete_exam_question"}

\* names bound at module level
ModuleGlobals ==
    {"json", "random", "Dict", "Generator", "List", "Union",
     "quote_plus", "urlencode", "urlparse", "requests",
     "SIMPathNotStartedError", "SIMNetExamNotStartedError", "LoginError",
     "CouldNotLoginError", "NotLoggedInError", "SIMNet"}

----------------------------------------------------------------------------
(* Answering one question *)

Min(a, b) == IF a <= b THEN a ELSE b

\* keyword arguments a caller may pass to a question method directly
AnswerArgs ==
    [question_id : QuestionIds, attempt : 1..(MaxAttempts + 1),
     seconds_spent : {SecondsSpentMin, SecondsSpentMax},
     seconds_remaining : {ExamBudget, ExamBudget - SecondsSpentMax}]

\* max in place of min
SecondsRemainingSent_max(kw) ==
    IF kw.seconds_remaining >= ExamBudget - kw.seconds_spent
    THEN kw.seconds_remaining ELSE ExamBudget - kw.seconds_spent

\* "secondsRemaining": min(seconds_remaining, 600_000-seconds_spent)
SecondsRemainingSent(kw) ==
    Min(kw.seconds_remaining, ExamBudget - kw.seconds_spent)

\* simpath_data
simpath_data(kw) ==
    [questionID |-> kw.question_id, attempt |-> kw.attempt,
     secondsRemaining |-> SecondsRemainingSent(kw),
     secondsSpent |-> kw.seconds_spent, isCorrect |-> TRUE,
     lessonType |-> LessonType]

\* exam_data
exam_data(kw) ==
    [questionID |-> kw.question_id, attempt |-> kw.attempt,
     secondsRemaining |-> SecondsRemainingSent(kw),
     secondsSpent |-> kw.seconds_spent, isCorrect |-> TRUE]

\* _complete_simpath_question(**kw): its outcome, and the requests it issues
SimpathQuestionOutcome(kw, resp) ==
    IF ~login_required THEN "NotLoggedInError"
    ELSE IF ~simpath_started_required THEN "SIMPathNotStartedError"
    ELSE IF resp.status = "ConnectionError" THEN "ConnectionError"
    ELSE "None"

SimpathQuestionRequests(kw, resp) ==
    IF login_required /\ simpath_started_required
    THEN <<Request("saveanswer", <<"simpathexams">>, simpath_data(kw), resp)>>
    ELSE <<>>

\* _complete_exam_question(**kw): the url handed to session.post has no
\* scheme ("/api/simnetexams/..."), so requests raises MissingSchema while
\* preparing the request and nothing is sent
ExamQuestionOutcome(kw, resp) ==
    IF ~login_required THEN "NotLoggedInError"
    ELSE IF ~exam_started_required THEN "SIMNetExamNotStartedError"
    ELSE "MissingSchema"

ExamQuestionRequests(kw, resp) == <<>>

_complete_simpath_question ==
    /\ pc = "idle"
    /\ \E kw \in AnswerArgs, resp \in StatusResponses :
        Finish("_complete_simpath_question", kw,
               SimpathQuestionOutcome(kw, resp), SimpathQuestionRequests(kw, resp))
    /\ UNCHANGED <<session_flags, environment>>

_complete_exam_question ==
    /\ pc = "idle"
    /\ \E kw \in AnswerArgs, resp \in StatusResponses :
        Finish("_complete_exam_question", kw,
               ExamQuestionOutcome(kw, resp), ExamQuestionRequests(kw, resp))
    /\ UNCHANGED <<session_flags, environment>>

----------------------------------------------------------------------------
(* The exam runs: complete_simpath_exam and complete_exam.  The two bodies *)
(* are the same statements up to the answer loop, so each step is written  *)
(* once, for the operation op whose run is in progress.                    *)

ExamOps == {"complete_simpath_exam", "complete_exam"}

Running(op) == pc # "idle" /\ call.op = op

\* the call in progress raises: control returns to the caller and the
\* frame is gone
Raise(error) ==
    /\ pc' = "idle"
    /\ call' = [call EXCEPT !.outcome = error]
    /\ FreshFrame

\* the call in progress returns None
Return ==
    /\ pc' = "idle"
    /\ call' = [call EXCEPT !.outcome = "None"]
    /\ FreshFrame

\* the request goes out twice
Issue_twice(req) == sent' = Append(Append(sent, req), req)

\* self.session.get(...) / self.session.post(...) of a run: the request
\* joins those the call has issued
Issue(req) == sent' = Append(sent, req)

\* the body is entered without the login guard
EnterRun_unguarded(op) ==
    /\ pc = "idle"
    /\ pc' = "detail"
    /\ call' = Call(op, NoArg, "pending")
    /\ sent' = <<>>
    /\ FreshFrame
    /\ UNCHANGED <<session_flags, environment>>

\* the decorated call: the login guard, then the body is entered
EnterRun(op) ==
    /\ pc = "idle"
    /\ IF ~login_required
       THEN Finish(op, NoArg, "NotLoggedInError", <<>>)
       ELSE /\ pc' = "detail"
            /\ call' = Call(op, NoArg, "pending")
            /\ sent' = <<>>
            /\ FreshFrame
    /\ UNCHANGED <<session_flags, environment>>

\* loid = json.loads(self.session.get(".../details").text)["loid"]
FetchDetail(op) ==
    /\ Running(op) /\ pc = "detail"
    /\ \E resp \in BodyResponses :
        /\ Issue(Request("details", <<op>>, <<>>, resp))
        /\ IF JsonOutcome(resp) = "parsed"
           THEN pc' = "init" /\ UNCHANGED <<call, frame>>
           ELSE Raise(JsonOutcome(resp))
    /\ UNCHANGED <<session_flags, environment>>

\* req = self.session.get(".../init/..."); j = json.loads(req.text);
\* seconds_remaining = 600_000; j["questions"]
FetchInit(op) ==
    /\ Running(op) /\ pc = "init"
    /\ \E resp \in BodyResponses :
        /\ Issue(Request("init", <<op>>, <<>>, resp))
        /\ IF JsonOutcome(resp) = "parsed"
           THEN \E qs \in ServedQuestionLists :
                    /\ questions' = qs
                    /\ seconds_remaining' = ExamBudget
                    /\ pc' = IF qs = <<>> THEN "start" ELSE "build"
                    /\ UNCHANGED <<call, question_dicts, answered>>
           ELSE Raise(JsonOutcome(resp))
    /\ UNCHANGED <<session_flags, environment>>

\* seconds_remaining += seconds_spent
Decrement_up(remaining, seconds_spent) == remaining + seconds_spent

\* seconds_remaining -= seconds_spent
Decrement(remaining, seconds_spent) == remaining - seconds_spent

RECURSIVE BuildQuestions(_, _, _, _, _)
\* iterations lo..hi of "for question in j["questions"]", entered with the
\* local seconds_remaining at remaining, spent[i] being the i-th value
\* random.randint returns: the question dicts appended and the local
\* seconds_remaining afterwards (the range is halved to bound the nesting)
BuildQuestions(qs, spent, lo, hi, remaining) ==
    IF lo > hi
    THEN [question_dicts |-> <<>>, seconds_remaining |-> remaining]
    ELSE IF lo = hi
    THEN LET after == Decrement(remaining, spent[lo])
         IN  [question_dicts |->
                  <<[question_id       |-> qs[lo].id,
                     attempt           |-> qs[lo].attempts + 1,
                     seconds_spent     |-> spent[lo],
                     seconds_remaining |-> after]>>,
              seconds_remaining |-> after]
    ELSE LET mid == (lo + hi) \div 2
             first == BuildQuestions(qs, spent, lo, mid, remaining)
             rest == BuildQuestions(qs, spent, mid + 1, hi,
                                    first.seconds_remaining)
         IN  [question_dicts |-> first.question_dicts \o rest.question_dicts,
              seconds_remaining |-> rest.seconds_remaining]

\* the loop "for question in j["questions"]": it issues no request
BuildQuestion(op) ==
    /\ Running(op) /\ pc = "build"
    /\ \E spent \in [1..Len(questions) -> DrawnDurations] :
        LET built == BuildQuestions(questions, spent, 1, Len(questions),
                                    seconds_remaining)
        IN  /\ seconds_remaining' = built.seconds_remaining
            /\ question_dicts' = built.question_dicts
            /\ pc' = "start"
    /\ UNCHANGED <<session_flags, call, sent, questions, answered, environment>>

\* the flag the run of op sets and resets
SetPhase(op, value) ==
    IF op = "complete_simpath_exam"
    THEN is_in_simpath' = value /\ UNCHANGED <<logged_in, is_in_exam>>
    ELSE is_in_exam' = value /\ UNCHANGED <<logged_in, is_in_simpath>>

\* self.session.get(".../start/..."); self.is_in_simpath / is_in_exam = True
StartExam(op) ==
    /\ Running(op) /\ pc = "start"
    /\ \E resp \in StatusResponses :
        /\ Issue(Request("start", <<op>>, <<>>, resp))
        /\ IF resp.status = "ConnectionError"
           THEN Raise("ConnectionError") /\ UNCHANGED session_flags
           ELSE /\ SetPhase(op, TRUE)
                /\ pc' = IF question_dicts = <<>> THEN "end" ELSE "questions"
                /\ UNCHANGED <<call, frame>>
    /\ UNCHANGED environment

\* what evaluating the loop body raises before the question method is
\* entered: self.complete_simpath_question is looked up on the object,
\* time.sleep in the module's globals
LoopBodyError(op) ==
    IF op = "complete_simpath_exam"
    THEN IF "complete_simpath_question" \in ClassAttributes
         THEN "none" ELSE "AttributeError"
    ELSE IF "time" \in ModuleGlobals THEN "none" ELSE "NameError"

\* one iteration of "for question in question_dicts"
AnswerQuestion(op) ==
    /\ Running(op) /\ pc = "questions"
    /\ \E resp \in StatusResponses :
        LET kw == question_dicts[answered + 1]
            outcome == IF LoopBodyError(op) # "none" THEN LoopBodyError(op)
                       ELSE IF op = "complete_simpath_exam"
                       THEN SimpathQuestionOutcome(kw, resp)
                       ELSE ExamQuestionOutcome(kw, resp)
            requests == IF LoopBodyError(op) # "none" THEN <<>>
                        ELSE IF op = "complete_simpath_exam"
                        THEN SimpathQuestionRequests(kw, resp)
                        ELSE ExamQuestionRequests(kw, resp)
        IN  /\ sent' = sent \o requests
            /\ IF outcome # "None"
               THEN Raise(outcome)
               ELSE /\ answered' = answered + 1
                    /\ pc' = IF answered + 1 = Len(question_dicts)
                             THEN "end" ELSE "questions"
                    /\ UNCHANGED <<call, questions, question_dicts,
                                   seconds_remaining>>
    /\ UNCHANGED <<session_flags, environment>>

\* self.session.get(".../end/...?seconds={seconds_remaining}");
\* self.is_in_simpath / is_in_exam = False
EndExam(op) ==
    /\ Running(op) /\ pc = "end"
    /\ \E resp \in StatusResponses :
        /\ Issue(Request("end", <<op>>, [seconds |-> seconds_remaining], resp))
        /\ IF resp.status = "ConnectionError"
           THEN Raise("ConnectionError") /\ UNCHANGED session_flags
           ELSE SetPhase(op, FALSE) /\ Return
    /\ UNCHANGED environment

complete_simpath_exam ==
    \/ EnterRun("complete_simpath_exam")
    \/ FetchDetail("complete_simpath_exam")
    \/ FetchInit("complete_simpath_exam")
    \/ BuildQuestion("complete_simpath_exam")
    \/ StartExam("complete_simpath_exam")
    \/ AnswerQuestion("complete_simpath_exam")
    \/ EndExam("complete_simpath_exam")

complete_exam ==
    \/ EnterRun("complete_exam")
    \/ FetchDetail("complete_exam")
    \/ FetchInit("complete_exam")
    \/ BuildQuestion("complete_exam")
    \/ StartExam("complete_exam")
    \/ AnswerQuestion("complete_exam")
    \/ EndExam("complete_exam")

----------------------------------------------------------------------------
(* Specifications *)

Next ==
    \/ login
    \/ complete_simbook_assignment_from_url
    \/ complete_simbook_assignment_from_dict
    \/ get_simbook_assignments
    \/ complete_simpath_exam
    \/ _complete_simpath_question
    \/ complete_exam
    \/ _complete_exam_question

Spec == Init /\ [][Next]_vars

\* the program with a network that answers every request
SpecResponding == InitResponding /\ [][Next]_vars

\* the program on the long exam
SpecLongExam == InitLongExam /\ [][Next]_vars

----------------------------------------------------------------------------
(* Vocabulary of the properties *)

\* the operations decorated with @login_required
GuardedOps ==
    {"complete_simbook_assignment_from_url", "complete_simbook_assignment_from_dict",
     "get_simbook_assignments", "complete_simpath_exam", "complete_exam",
     "_complete_simpath_question", "_complete_exam_question"}

\* a step that starts a call of op (every step taken from "idle" is a call)
Calls(op) == pc = "idle" /\ call'.op = op

CallsGuarded == pc = "idle" /\ call'.op \in GuardedOps

\* the call was rejected by the login guard: the error, and nothing sent
RejectedAtLoginGuard ==
    call'.outcome = "NotLoggedInError" /\ sent' = <<>> /\ pc' = "idle"

Idle == ~is_in_simpath /\ ~is_in_exam

\* the run is past its start call and before the return of its end call
Started == pc \in {"questions", "end"}

\* the flag of the variant of the run of op
PhaseFlag(op) == IF op = "complete_simpath_exam" THEN is_in_simpath ELSE is_in_exam

\* s1 + ... + sk over the first k prepared questions
RECURSIVE SumSpent(_)
SumSpent(k) ==
    IF k = 0 THEN 0 ELSE SumSpent(k - 1) + question_dicts[k].seconds_spent

Endpoints(requests) == [i \in 1..Len(requests) |-> requests[i].endpoint]

IsSaveAnswer(req) == req.endpoint = "saveanswer"

\* question id and attempt number of the submissions among the requests
Submissions(requests) ==
    LET answers == SelectSeq(requests, IsSaveAnswer)
    IN  [i \in 1..Len(answers) |->
            [id |-> answers[i].params.questionID, attempt |-> answers[i].params.attempt]]

\* what the init payload asks to be submitted
Expected(qs) ==
    [i \in 1..Len(qs) |-> [id |-> qs[i].id, attempt |-> qs[i].attempts + 1]]

----------------------------------------------------------------------------
(* C1: a call of an operation decorated with the login guard, made while   *)
(* logged_in is false, ends with NotLoggedInError and hands no request to  *)
(* the session; a successful login sets logged_in, logged_in then stays    *)
(* true, and while it is true no such call ends with NotLoggedInError.     *)
C1_LoginGuard ==
    [][ /\ (CallsGuarded /\ ~logged_in) => RejectedAtLoginGuard
        /\ (CallsGuarded /\ logged_in) => call'.outcome # "NotLoggedInError"
        /\ (Calls("login") /\ call'.outcome = "None") => logged_in'
        /\ logged_in => logged_in' ]_vars

C1_Witness ==
    /\ ~logged_in
    /\ call.op \in GuardedOps
    /\ call.outcome = "NotLoggedInError"
    /\ sent = <<>>

(* C2: a login whose response is not a success ends with                   *)
(* CouldNotLoginError and leaves logged_in false when it was false; while  *)
(* logged_in is false only a successful login makes it true, and every     *)
(* guarded call is rejected at the login guard.                            *)
C2_FailedLogin ==
    [][ /\ (Calls("login") /\ sent'[1].resp.status = "fail")
            => (call'.outcome = "CouldNotLoginError" /\ (~logged_in => ~logged_in'))
        /\ (~logged_in /\ logged_in')
            => (Calls("login") /\ sent'[1].resp.status = "ok")
        /\ (CallsGuarded /\ ~logged_in) => (RejectedAtLoginGuard /\ ~logged_in') ]_vars

C2_Witness ==
    /\ call.op = "login"
    /\ call.outcome = "CouldNotLoginError"
    /\ sent[1].resp.status = "fail"
    /\ ~logged_in

(* C3, as claimed: the secondsRemaining value of the k-th submission of a  *)
(* run is min(600000 - (s1 + ... + s(k-1)), 600000 - sk).                  *)
C3_AsClaimed ==
    \A k \in 1..Len(question_dicts) :
        SecondsRemainingSent(question_dicts[k])
            = Min(ExamBudget - SumSpent(k - 1),
                  ExamBudget - question_dicts[k].seconds_spent)

(* C3, amended: the secondsRemaining value the run prepares for its k-th   *)
(* submission is min(600000 - (s1 + ... + sk), 600000 - sk), which is      *)
(* 600000 - (s1 + ... + sk): the budget is decremented by sk before the    *)
(* k-th entry is built.                                                    *)
C3_BudgetAfterDecrement ==
    \A k \in 1..Len(question_dicts) :
        /\ SecondsRemainingSent(question_dicts[k])
              = Min(ExamBudget - SumSpent(k),
                    ExamBudget - question_dicts[k].seconds_spent)
        /\ SecondsRemainingSent(question_dicts[k]) = ExamBudget - SumSpent(k)

C3_Witness ==
    /\ pc = "start"
    /\ Len(question_dicts) >= 2
    /\ Len(question_dicts) = Len(questions)

(* C4: once the questions of a run are prepared, the value the end call    *)
(* will carry (the local seconds_remaining) is 600000 minus the sum of     *)
(* their seconds_spent, and the end call of the run carries 600000 minus   *)
(* that sum as its seconds value (600000 for an empty question list).      *)
C4_EndSeconds ==
    [][ /\ pc \in {"start", "questions", "end"}
            => seconds_remaining = ExamBudget - SumSpent(Len(question_dicts))
        /\ pc = "end"
            => LET req == sent'[Len(sent')]
               IN  /\ Len(sent') = Len(sent) + 1
                   /\ req.endpoint = "end"
                   /\ req.params.seconds = ExamBudget - SumSpent(Len(question_dicts)) ]_vars

C4_Witness ==
    /\ pc = "idle"
    /\ call.op \in ExamOps
    /\ call.outcome = "None"
    /\ sent # <<>>
    /\ sent[Len(sent)].endpoint = "end"
    /\ sent[Len(sent)].params.seconds = ExamBudget

(* C5: no phase flag is set when no run is in progress and while a run is  *)
(* before its start call; between the start call and the end call exactly  *)
(* the flag of the run's variant is set.                                   *)
C5_PhaseFollowsRun ==
    /\ pc \in {"idle", "detail", "init", "build", "start"} => Idle
    /\ Started => (PhaseFlag(call.op) /\ ~(is_in_simpath /\ is_in_exam))

(* C6: a run that has issued its start call returns control only after it  *)
(* has issued its end call and reset its phase flag, whatever the number   *)
(* of questions, when every request gets a response.                       *)
C6_StartedRunEnds ==
    (/\ pc = "idle"
     /\ call.op \in ExamOps
     /\ \E i \in 1..Len(sent) : sent[i].endpoint = "start")
        => /\ \E j \in 1..Len(sent) : sent[j].endpoint = "end"
           /\ call.outcome = "None"
           /\ ~PhaseFlag(call.op)

(* C7: when a started run returns control, its submissions are those of    *)
(* the question list of the init payload: the i-th carries the id of the   *)
(* i-th question and its attempts + 1, none missing and none twice.        *)
C7_SubmissionsFollowQuestions ==
    [][ (Started /\ pc' = "idle") => Submissions(sent') = Expected(questions) ]_vars

(* C8, as claimed: a question method called while the flag of its variant  *)
(* is not set ends with the not-started error of that variant and sends    *)
(* nothing.                                                                *)
C8_AsClaimed ==
    [][ /\ (Calls("_complete_simpath_question") /\ ~is_in_simpath)
            => (call'.outcome = "SIMPathNotStartedError" /\ sent' = <<>>)
        /\ (Calls("_complete_exam_question") /\ ~is_in_exam)
            => (call'.outcome = "SIMNetExamNotStartedError" /\ sent' = <<>>) ]_vars

(* C8, amended: on a logged-in session, a question method called while the *)
(* flag of its variant is not set ends with the not-started error of that  *)
(* variant and sends nothing (the login guard is checked first, so without *)
(* a login the error is NotLoggedInError).                                 *)
C8_PhaseGuard ==
    [][ /\ (Calls("_complete_simpath_question") /\ logged_in /\ ~is_in_simpath)
            => (call'.outcome = "SIMPathNotStartedError" /\ sent' = <<>>)
        /\ (Calls("_complete_exam_question") /\ logged_in /\ ~is_in_exam)
            => (call'.outcome = "SIMNetExamNotStartedError" /\ sent' = <<>>)
        /\ (Calls("_complete_simpath_question") /\ ~logged_in)
            => call'.outcome = "NotLoggedInError" ]_vars

C8_Witness ==
    /\ logged_in /\ is_in_exam /\ ~is_in_simpath
    /\ call.op = "_complete_simpath_question"
    /\ call.outcome = "SIMPathNotStartedError"
    /\ sent = <<>>

\* the query of the url unpacks into the four names of the assignment
FourFields(url) == Len(split(urlparse(url).query, "&")) = 4

\* the urls of the model that do
FourFieldUrls == {url \in Urls : FourFields(url)}

(* C9: on a logged-in session, the two simbook completions called with a   *)
(* reference that parses send one request, and when it gets an HTTP        *)
(* response they return True if it is a success and False if it is not,    *)
(* raising nothing.                                                        *)
C9_BooleanResult ==
    [][ /\ (Calls("complete_simbook_assignment_from_url") /\ logged_in
                /\ call'.arg \in FourFieldUrls)
            => /\ Len(sent') = 1
               /\ sent'[1].resp.status = "ok" => call'.outcome = "True"
               /\ sent'[1].resp.status = "fail" => call'.outcome = "False"
        /\ (Calls("complete_simbook_assignment_from_dict") /\ logged_in)
            => /\ Len(sent') = 1
               /\ sent'[1].resp.status = "ok" => call'.outcome = "True"
               /\ sent'[1].resp.status = "fail" => call'.outcome = "False" ]_vars

C9_Witness ==
    /\ call.op = "complete_simbook_assignment_from_url"
    /\ sent # <<>>
    /\ sent[1].resp.status = "fail"
    /\ call.outcome = "False"

(* C10: for a url whose query splits on '&' into 4 fields, the first l=X   *)
(* and the second a=Y, the request is built from lessonObjectId X,         *)
(* assignmentId Y and the fragment as page slug; with fewer than 4 fields  *)
(* the call ends with an error and sends nothing.                          *)
C10_ReferenceParsed ==
    (call.op = "complete_simbook_assignment_from_url" /\ logged_in)
        => LET parsed_url == urlparse(call.arg)
               fields     == split(parsed_url.query, "&")
           IN  /\ (/\ Len(fields) = 4
                    /\ StartsWith(fields[1], <<"l", "=">>)
                    /\ StartsWith(fields[2], <<"a", "=">>))
                   => /\ Len(sent) = 1
                      /\ sent[1].path[1] = RemovePrefix(fields[1], <<"l", "=">>)
                      /\ sent[1].path[2] = RemovePrefix(fields[2], <<"a", "=">>)
                      /\ sent[1].path[4] = parsed_url.fragment
               /\ Len(fields) < 4
                   => (call.outcome = "ValueError" /\ sent = <<>>)

\* the endpoints of the preparation of a run: detail fetch, init fetch, start
SetupEndpoints == {"details", "init", "start"}

\* the call is an exam run one of whose preparation requests got a response
\* that is not a success
FailedSetup ==
    /\ call.op \in ExamOps
    /\ \E i \in 1..Len(sent) :
        sent[i].endpoint \in SetupEndpoints /\ sent[i].resp.status # "ok"

(* C11: an exam run whose detail fetch, init fetch or start call gets a    *)
(* response that is not a success stops there with an error: it sets no    *)
(* phase flag and issues no question submission and no end call.           *)
C11_FailedSetupAborts ==
    [][ FailedSetup'
            => /\ pc' = "idle"
               /\ call'.outcome \notin {"None", "pending"}
               /\ \A j \in 1..Len(sent') :
                      sent'[j].endpoint \notin {"saveanswer", "end"}
               /\ UNCHANGED <<is_in_simpath, is_in_exam>> ]_vars

(* C12: an iteration of the question loop of a started run never ends the  *)
(* run, whatever becomes of its submission: the loop goes on to the next   *)
(* question, after the last one the end call is issued, and the run        *)
(* returns with its phase flag reset.                                      *)
C12_LoopContinues ==
    [][ /\ pc = "questions"
            => (answered' = answered + 1 /\ pc' \in {"questions", "end"})
        /\ (Started /\ pc' = "idle")
            => /\ sent'[Len(sent')].endpoint = "end"
               /\ Len(SelectSeq(sent', IsSaveAnswer)) = Len(questions)
               /\ ~PhaseFlag(call.op)' ]_vars

(* C13: the requests of an exam run go out in the order detail fetch, init *)
(* fetch, start, question submissions, end: the first three are those, in  *)
(* that order, every later one is a submission or the end call, and the    *)
(* end call is the last; so start and end go out at most once and no       *)
(* submission precedes start or follows end.                               *)
C13_FixedOrder ==
    call.op \in ExamOps
        => \A i \in 1..Len(sent) :
            /\ i = 1 => sent[i].endpoint = "details"
            /\ i = 2 => sent[i].endpoint = "init"
            /\ i = 3 => sent[i].endpoint = "start"
            /\ i > 3 => sent[i].endpoint \in {"saveanswer", "end"}
            /\ sent[i].endpoint = "end" => i = Len(sent)

C13_Witness ==
    /\ pc = "idle"
    /\ call.op \in ExamOps
    /\ call.outcome = "None"
    /\ Endpoints(sent) = <<"details", "init", "start", "end">>

(* C14: the two phase flags are never both set.                            *)
C14_OnePhase == ~(is_in_simpath /\ is_in_exam)

(* C15: the secondsRemaining value of every question submission a run    *)
(* prepares is at least zero, whatever the number of questions and the     *)
(* durations drawn.                                                        *)
C15_NeverNegative ==
    \A k \in 1..Len(question_dicts) :
        SecondsRemainingSent(question_dicts[k]) >= 0

(* C16: a phase flag changes only in a step taken while logged_in is      *)
(* true, and whenever a phase flag is set logged_in is true.               *)
C16_PhaseNeedsLogin ==
    [][ /\ (is_in_simpath' # is_in_simpath \/ is_in_exam' # is_in_exam)
            => logged_in
        /\ ~Idle' => logged_in' ]_vars

C16_Witness ==
    /\ pc = "idle"
    /\ call.op = "complete_exam"
    /\ call.outcome = "None"
    /\ logged_in /\ is_in_simpath /\ ~is_in_exam

(* C17: on a logged-in session, the completion from a url whose first      *)
(* '&'-separated query field does not start with "l=" or whose second does *)
(* not start with "a=" ends with an error and sends nothing.               *)
C17_PrefixesRequired ==
    (call.op = "complete_simbook_assignment_from_url" /\ logged_in)
        => LET fields == split(urlparse(call.arg).query, "&")
           IN  (/\ Len(fields) >= 2
                /\ \/ ~StartsWith(fields[1], <<"l", "=">>)
                   \/ ~StartsWith(fields[2], <<"a", "=">>))
                   => /\ call.outcome \notin {"True", "False"}
                      /\ sent = <<>>

\* a request as a step of the exam protocol, the endpoint left out: a
\* submission with its four values, the end call with its seconds, or the
\* name of a preparation step
ProtocolStep(req) ==
    IF IsSaveAnswer(req)
    THEN [step |-> "submit",
          questionId       |-> req.params.questionID,
          attemptNumber    |-> req.params.attempt,
          secondsSpent     |-> req.params.secondsSpent,
          secondsRemaining |-> req.params.secondsRemaining]
    ELSE IF req.endpoint = "end"
    THEN [step |-> "end", seconds |-> req.params.seconds]
    ELSE [step |-> req.endpoint]

Protocol(requests) == [i \in 1..Len(requests) |-> ProtocolStep(requests[i])]

\* the steps the init payload and the durations of the run in progress call
\* for, whichever the variant
ExpectedProtocol ==
    <<[step |-> "details"], [step |-> "init"], [step |-> "start"]>>
    \o [k \in 1..Len(question_dicts) |->
            [step |-> "submit",
             questionId       |-> question_dicts[k].question_id,
             attemptNumber    |-> question_dicts[k].attempt,
             secondsSpent     |-> question_dicts[k].seconds_spent,
             secondsRemaining |-> SecondsRemainingSent(question_dicts[k])]]
    \o <<[step |-> "end", seconds |-> seconds_remaining]>>

(* C18: a started run of either variant hands control back having gone     *)
(* through the same steps, determined by the init payload and the          *)
(* durations alone: detail, init, start, one submission per question with  *)
(* its id, attempt number, seconds spent and seconds remaining, then end   *)
(* with the remaining budget; it returns None with its phase flag reset.   *)
C18_SameMechanics ==
    [][ (Started /\ pc' = "idle")
            => /\ Protocol(sent') = ExpectedProtocol
               /\ call'.outcome = "None"
               /\ ~PhaseFlag(call.op)' ]_vars

(* C19: a login that gets a success response returns None and leaves       *)
(* logged_in true and both phase flags as they were, whether or not the    *)
(* session was logged in already; no logout comes in between.              *)
C19_LoginIdempotent ==
    [][ (Calls("login") /\ sent'[1].resp.status = "ok")
            => /\ call'.outcome = "None"
               /\ pc' = "idle"
               /\ logged_in'
               /\ UNCHANGED <<is_in_simpath, is_in_exam>> ]_vars

C19_Witness ==
    /\ pc = "idle"
    /\ call.op = "login"
    /\ call.outcome = "None"
    /\ logged_in /\ is_in_simpath

(* C20: no step makes logged_in false once it is true; in particular a     *)
(* login on a logged-in session that gets no success response raises and   *)
(* leaves logged_in true.                                                  *)
C20_LoginMonotonic ==
    [][ /\ logged_in => logged_in'
        /\ (Calls("login") /\ logged_in /\ sent'[1].resp.status # "ok")
            => /\ call'.outcome \in {"CouldNotLoginError", "ConnectionError"}
               /\ logged_in' ]_vars

C20_Witness ==
    /\ pc = "idle"
    /\ call.op = "login"
    /\ call.outcome = "CouldNotLoginError"
    /\ logged_in

\* the three simbook operations
SimbookOps ==
    {"complete_simbook_assignment_from_url", "complete_simbook_assignment_from_dict",
     "get_simbook_assignments"}

\* the errors the three guards raise
GuardErrors ==
    {"NotLoggedInError", "SIMPathNotStartedError", "SIMNetExamNotStartedError"}

(* C21: a call that ends with the error of a guard sends nothing and       *)
(* leaves logged_in, is_in_simpath and is_in_exam as they were; a call of  *)
(* a simbook operation leaves the three as they were whatever its outcome. *)
C21_FrameOfGuardsAndSimbook ==
    [][ /\ (pc = "idle" /\ call'.outcome \in GuardErrors)
            => (UNCHANGED session_flags /\ sent' = <<>> /\ pc' = "idle")
        /\ (pc = "idle" /\ call'.op \in SimbookOps)
            => (UNCHANGED session_flags /\ pc' = "idle") ]_vars

C21_Witness ==
    /\ pc = "idle"
    /\ call.op = "get_simbook_assignments"
    /\ call.outcome = "tasks"
    /\ logged_in /\ is_in_simpath /\ ~is_in_exam

====
